---- MODULE Spec2Model ----
(***************************************************************************)
(* Model of src/main.py: the spreadsheet upload handler (upload_excel),    *)
(* the provider search with enrichment (search_videos) and the merged      *)
(* listing (combined_videos), with the manual_data collection they share.  *)
(*                                                                         *)
(* Text is a sequence of one-character strings, so that strip, lower,      *)
(* slicing, substring search and Python's ordering of str are computed.    *)
(* A Python value is a record [t, s, n, d]: t is its type, s the text of a *)
(* str, n the number of an int, d the fields of a datetime.                *)
(* A document or a video is a function from field names to values.         *)
(* Of a video record the model keeps the fields video_id, published,       *)
(* platform and keywords; title, channel, url and the three counters of    *)
(* an enriched record are not read by any property stated here.            *)
(***************************************************************************)
EXTENDS Integers, Sequences, FiniteSets, TLC

(* ------------------------------------------------------------------ *)
(* Text                                                                 *)
(* ------------------------------------------------------------------ *)

\* The characters of the model's texts, with their code points:
\* space 32, '#' 35, ',' 44, '-' 45, '0'..'9' 48..57, ':' 58, 'A'..'Z' 65..90,
\* 'a'..'z' 97..122.
Digits == << "0", "1", "2", "3", "4", "5", "6", "7", "8", "9" >>

Uppers ==
  << "A", "B", "C", "D", "E", "F", "G", "H", "I", "J", "K", "L", "M",
     "N", "O", "P", "Q", "R", "S", "T", "U", "V", "W", "X", "Y", "Z" >>

Lowers ==
  << "a", "b", "c", "d", "e", "f", "g", "h", "i", "j", "k", "l", "m",
     "n", "o", "p", "q", "r", "s", "t", "u", "v", "w", "x", "y", "z" >>

\* the position of c in the sequence cs
IndexOf(c, cs) == CHOOSE i \in 1..Len(cs) : cs[i] = c

Range(cs) == {cs[i] : i \in 1..Len(cs)}

\* ord(c), for the characters above
CodePoint ==
  [c \in {" ", "#", ",", "-", ":"} \cup Range(Digits) \cup Range(Uppers)
         \cup Range(Lowers) |->
     CASE c = " " -> 32
       [] c = "#" -> 35
       [] c = "," -> 44
       [] c = "-" -> 45
       [] c = ":" -> 58
       [] c \in Range(Digits) -> 47 + IndexOf(c, Digits)
       [] c \in Range(Uppers) -> 64 + IndexOf(c, Uppers)
       [] c \in Range(Lowers) -> 96 + IndexOf(c, Lowers)]

Ord(c) == CodePoint[c]

\* the lower-case letter of every upper-case letter
LowerOf == [c \in Range(Uppers) |-> Lowers[IndexOf(c, Uppers)]]

\* str.lower() on one character
LowerChar(c) == IF c \in DOMAIN LowerOf THEN LowerOf[c] ELSE c

\* str.lower()
Lower(s) == [i \in 1..Len(s) |-> LowerChar(s[i])]

\* str.lstrip(chars): drop the leading characters that are in chars
RECURSIVE LStripChars(_, _)
LStripChars(s, chars) ==
  IF s # <<>> /\ Head(s) \in chars THEN LStripChars(Tail(s), chars) ELSE s

\* str.rstrip(chars)
RECURSIVE RStripChars(_, _)
RStripChars(s, chars) ==
  IF s # <<>> /\ s[Len(s)] \in chars
  THEN RStripChars(SubSeq(s, 1, Len(s) - 1), chars)
  ELSE s

\* the whitespace str.strip() removes, among the printable characters
Whitespace == {" "}

\* str.strip()
Strip(s) == RStripChars(LStripChars(s, Whitespace), Whitespace)

\* s[:n]
Prefix(s, n) == SubSeq(s, 1, IF Len(s) < n THEN Len(s) ELSE n)

\* sub in s
Contains(sub, s) ==
  \E i \in 0..(Len(s) - Len(sub)) : SubSeq(s, i + 1, i + Len(sub)) = sub

\* a < b on str: the first differing character decides, a proper prefix is smaller
RECURSIVE StrLess(_, _)
StrLess(a, b) ==
  IF b = <<>> THEN FALSE
  ELSE IF a = <<>> THEN TRUE
  ELSE IF Head(a) = Head(b) THEN StrLess(Tail(a), Tail(b))
  ELSE Ord(Head(a)) < Ord(Head(b))

\* a <= b on str
StrLE(a, b) == a = b \/ StrLess(a, b)

\* one decimal digit
Digit(n) == Digits[n + 1]

\* str(n) of a non-negative int
RECURSIVE Decimal(_)
Decimal(n) == IF n < 10 THEN <<Digit(n)>> ELSE Decimal(n \div 10) \o <<Digit(n % 10)>>

\* the zero-padded field of width w that datetime.__str__ prints
RECURSIVE Padded(_, _)
Padded(n, w) ==
  IF Len(Decimal(n)) >= w THEN Decimal(n) ELSE <<"0">> \o Padded(n, w - 1)

(* ------------------------------------------------------------------ *)
(* Python values                                                        *)
(* ------------------------------------------------------------------ *)

\* a str
PyStr(s) == [t |-> "str", s |-> s, n |-> 0, d |-> <<>>]

\* an int
PyInt(n) == [t |-> "int", s |-> <<>>, n |-> n, d |-> <<>>]

\* a datetime (pandas Timestamp, BSON date): <<year, month, day, hour, minute, second>>
PyDatetime(d) == [t |-> "datetime", s |-> <<>>, n |-> 0, d |-> d]

\* the float nan pandas holds for an empty cell
NaN == [t |-> "nan", s |-> <<>>, n |-> 0, d |-> <<>>]

\* the ObjectId insert_many gives a document, here the document's position
\* in the collection: unique among the documents the collection holds
ObjectId(i) == [t |-> "oid", s |-> <<>>, n |-> i, d |-> <<>>]

\* bool(v)
Truthy(v) ==
  CASE v.t = "str" -> v.s # <<>>
    [] v.t = "int" -> v.n # 0
    [] OTHER -> TRUE

\* v or ""
OrEmpty(v) == IF Truthy(v) THEN v ELSE PyStr(<<>>)

\* datetime.__str__ with no microseconds: YYYY-MM-DD HH:MM:SS
DatetimeText(d) ==
  Padded(d[1], 4) \o <<"-">> \o Padded(d[2], 2) \o <<"-">> \o Padded(d[3], 2)
    \o <<" ">> \o Padded(d[4], 2) \o <<":">> \o Padded(d[5], 2)
    \o <<":">> \o Padded(d[6], 2)

\* str(v), as text
Str(v) ==
  CASE v.t = "str" -> v.s
    [] v.t = "int" -> Decimal(v.n)
    [] v.t = "datetime" -> DatetimeText(v.d)
    [] v.t = "nan" -> <<"n", "a", "n">>

\* dict.get(key, default)
Get(v, key, default) == IF key \in DOMAIN v THEN v[key] ELSE default

\* dict.setdefault(key, default), as the dict it leaves
SetDefault(v, key, default) ==
  IF key \in DOMAIN v THEN v
  ELSE [k \in DOMAIN v \cup {key} |-> IF k = key THEN default ELSE v[k]]

\* v[key] = value, as the dict it leaves
SetItem(v, key, value) ==
  [k \in DOMAIN v \cup {key} |-> IF k = key THEN value ELSE v[k]]

\* the field names of the documents and videos
K_id == <<"_", "i", "d">>
K_published == <<"p", "u", "b", "l", "i", "s", "h", "e", "d">>
K_keywords == <<"k", "e", "y", "w", "o", "r", "d", "s">>
K_platform == <<"p", "l", "a", "t", "f", "o", "r", "m">>
K_video_id == <<"v", "i", "d", "e", "o", "_", "i", "d">>

(* ------------------------------------------------------------------ *)
(* upload_excel: the spreadsheet and its records                        *)
(* ------------------------------------------------------------------ *)

\* df.columns.str.strip().str.lower(), on one header
NormalizeColumn(h) == Lower(Strip(h))

\* df.fillna(""), on one cell
FillNa(c) == IF c.t = "nan" THEN PyStr(<<>>) ELSE c

\* One row of df.to_dict(orient="records"): a dict from the normalised
\* column names to the filled cells; of two columns with one name the
\* later one is kept.
RowRecord(columns, row) ==
  LET names == {NormalizeColumn(columns[j]) : j \in 1..Len(columns)}
      last(k) == CHOOSE j \in 1..Len(columns) :
                   /\ NormalizeColumn(columns[j]) = k
                   /\ \A i \in 1..Len(columns) :
                        NormalizeColumn(columns[i]) = k => i <= j
  IN [k \in names |-> FillNa(row[last(k)])]

\* records = df.to_dict(orient="records") of the sheet read by read_excel
Records(sheet) ==
  [i \in 1..Len(sheet.rows) |-> RowRecord(sheet.columns, sheet.rows[i])]

\* The documents insert_many(records) stores behind the n the collection
\* holds: every record gets an _id of its own.
InsertedDocs(records, n) ==
  [i \in 1..Len(records) |-> SetItem(records[i], K_id, ObjectId(n + i))]

\* a stored document without its _id: the row the spreadsheet held
RowOf(doc) == [k \in DOMAIN doc \ {K_id} |-> doc[k]]

\* the rows a list of documents holds, in order
RowsOf(docs) == [i \in 1..Len(docs) |-> RowOf(docs[i])]

(* ------------------------------------------------------------------ *)
(* search_videos                                                        *)
(* ------------------------------------------------------------------ *)

\* What yt() returns on an exception e of the request: {"error": str(e)},
\* with no items and no token. raised records that the request raised;
\* the code sees the message alone.
YtError(message) ==
  [raised |-> TRUE, error |-> message, items |-> <<>>, nextPageToken |-> 0]

\* str(e) of an exception with a message, and of one without (TimeoutError())
E_timeout == <<"t", "i", "m", "e", "d", " ", "o", "u", "t">>
E_none == <<>>

\* data.get("error") as a condition (lines 107 and 136): a message that is
\* not empty; a response with no error key, or with the message "", has none
HasError(data) == data.error # <<>>

\* what yt() returns for a page of the provider: the items and the
\* continuation token (0 when the provider gives none)
YtPage(items, token) ==
  [raised |-> FALSE, error |-> <<>>, items |-> items, nextPageToken |-> token]

\* the batch size of the statistics lookup
BatchSize == 50

T_YouTube == <<"Y", "o", "u", "T", "u", "b", "e">>

\* The state of one call once query is cleaned (lines 90-95):
\* HTTPException(400) for an empty query, else the loop's start.
SearchBegin(query, max_results) ==
  LET q == Strip(LStripChars(query, {"#"}))
  IN [pc |-> IF q = <<>> THEN "raise400" ELSE "while",
      query |-> q, max_results |-> max_results,
      video_ids |-> <<>>, next_page |-> 0,
      items |-> <<>>, token |-> 0,
      i |-> 0, stats |-> <<>>, processed_ids |-> {}]

\* the test of the while loop (line 98)
WhileTest(st) == Len(st.video_ids) < st.max_results

\* the loop ends because its test fails
WhileExit(st) == [st EXCEPT !.pc = "collected"]

\* a page handler that does not leave the loop on an empty page
SearchPage_NoEmptyBreak(st, data) ==
  IF HasError(data) THEN [st EXCEPT !.pc = "raise502"]
  ELSE [st EXCEPT !.pc = IF data.items = <<>> THEN "token" ELSE "for",
                  !.items = data.items, !.token = data.nextPageToken]

\* One search page arrives (lines 106-112): an error raises
\* HTTPException(502), no items break the loop, else the for loop starts.
SearchPage(st, data) ==
  IF HasError(data) THEN [st EXCEPT !.pc = "raise502"]
  ELSE IF data.items = <<>> THEN [st EXCEPT !.pc = "collected"]
  ELSE [st EXCEPT !.pc = "for", !.items = data.items,
                  !.token = data.nextPageToken]

\* the break test one identifier late
ForBreak_Late(video_ids, max_results) == Len(video_ids) > max_results

\* the break test inside the for loop (line 116)
ForBreak(video_ids, max_results) == Len(video_ids) >= max_results

\* One iteration of the for loop (lines 114-117).
ForItem(st) ==
  LET ids == Append(st.video_ids, Head(st.items))
      rest == Tail(st.items)
  IN [st EXCEPT !.video_ids = ids,
                !.items = rest,
                !.pc = IF ForBreak(ids, st.max_results) \/ rest = <<>>
                       THEN "token" ELSE "for"]

\* After the for loop (lines 119-121): no token breaks the while loop.
PageEnd(st) ==
  IF st.token = 0 THEN [st EXCEPT !.pc = "collected"]
  ELSE [st EXCEPT !.pc = "while", !.next_page = st.token]

\* After the while loop (lines 123-128).
Collected(st) ==
  IF st.video_ids = <<>> THEN [st EXCEPT !.pc = "return"]
  ELSE [st EXCEPT !.pc = "batch", !.i = 0]

\* video_ids[i:i + 50]
BatchIds(st) ==
  SubSeq(st.video_ids, st.i + 1,
         IF st.i + BatchSize < Len(st.video_ids) THEN st.i + BatchSize
         ELSE Len(st.video_ids))

\* the record appended for one item of the statistics response (lines 146-159)
StatsRecord(v, query) ==
  [k \in {K_video_id, K_published, K_platform, K_keywords} |->
     CASE k = K_video_id -> PyInt(v.id)
       [] k = K_published -> PyStr(Prefix(v.publishedAt, 10))
       [] k = K_platform -> PyStr(T_YouTube)
       [] k = K_keywords -> PyStr(Lower(query))]

\* the test of line 142 left out
AlreadyProcessed_Never(vid, processed_ids) == FALSE

\* whether the item is skipped as already processed (line 142)
AlreadyProcessed(vid, processed_ids) == vid \in processed_ids

\* the for loop over the items of one statistics response (lines 140-159)
RECURSIVE StatsItems(_, _)
StatsItems(st, items) ==
  IF items = <<>> THEN st
  ELSE LET v == Head(items)
       IN IF AlreadyProcessed(v.id, st.processed_ids)
          THEN StatsItems(st, Tail(items))
          ELSE StatsItems(
                 [st EXCEPT !.processed_ids = @ \cup {v.id},
                            !.stats = Append(@, StatsRecord(v, st.query))],
                 Tail(items))

\* whether the range over the batches has one more (line 130)
BatchTest(st) == st.i < Len(st.video_ids)

\* a statistics batch whose failure ends the call like a failed search
StatsBatch_Raises(st, info) ==
  IF HasError(info) THEN [st EXCEPT !.pc = "raise502"]
  ELSE StatsItems([st EXCEPT !.i = @ + BatchSize], info.items)

\* One statistics batch (lines 131-159): a failed batch is skipped.
StatsBatch(st, info) ==
  LET next == [st EXCEPT !.i = @ + BatchSize]
  IN IF HasError(info) THEN next ELSE StatsItems(next, info.items)

\* the range over the batches is exhausted
BatchExit(st) == [st EXCEPT !.pc = "return"]

\* {"videos": stats, "total": len(stats)} (lines 124 and 161)
SearchResult(st) == [videos |-> st.stats, total |-> Len(st.stats)]

\* the next response of a scripted provider: a call past the script's end fails
NextOf(responses) ==
  IF responses = <<>> THEN YtError(E_timeout) ELSE Head(responses)

RestOf(responses) == IF responses = <<>> THEN <<>> ELSE Tail(responses)

\* The call run to its end against a scripted provider: provider.search
\* answers the search requests in order, provider.videos the statistics
\* requests. The state it ends in has pc "return", "raise400" or "raise502".
RECURSIVE RunSearch(_, _)
RunSearch(st, provider) ==
  CASE st.pc = "while" ->
         IF WhileTest(st)
         THEN RunSearch(SearchPage(st, NextOf(provider.search)),
                        [provider EXCEPT !.search = RestOf(@)])
         ELSE RunSearch(WhileExit(st), provider)
    [] st.pc = "for" -> RunSearch(ForItem(st), provider)
    [] st.pc = "token" -> RunSearch(PageEnd(st), provider)
    [] st.pc = "collected" -> RunSearch(Collected(st), provider)
    [] st.pc = "batch" ->
         IF BatchTest(st)
         THEN RunSearch(StatsBatch(st, NextOf(provider.videos)),
                        [provider EXCEPT !.videos = RestOf(@)])
         ELSE RunSearch(BatchExit(st), provider)
    [] OTHER -> st

\* search_videos(query, start, end, max_results) against a scripted provider
search_videos(query, max_results, provider) ==
  RunSearch(SearchBegin(query, max_results), provider)

(* ------------------------------------------------------------------ *)
(* combined_videos                                                      *)
(* ------------------------------------------------------------------ *)

K_title == <<"t", "i", "t", "l", "e">>
K_channel == <<"c", "h", "a", "n", "n", "e", "l">>
K_url == <<"u", "r", "l">>
K_views == <<"v", "i", "e", "w", "s">>
K_likes == <<"l", "i", "k", "e", "s">>
K_comments == <<"c", "o", "m", "m", "e", "n", "t", "s">>
K_idfield == <<"i", "d">>
T_Untitled == <<"U", "n", "t", "i", "t", "l", "e", "d">>
T_Unknown == <<"U", "n", "k", "n", "o", "w", "n">>
T_Manual == <<"M", "a", "n", "u", "a", "l">>
T_Sentinel == <<"0", "0", "0", "0", "-", "0", "0", "-", "0", "0">>

\* pub_date of a stored document (line 181)
PubDate(v) == Strip(Str(OrEmpty(Get(v, K_published, PyStr(<<>>)))))

\* the date test without its upper end
DateSkips_NoEnd(pub_date, start, end) ==
  pub_date = <<>> \/ ~StrLE(start, pub_date)

\* whether the date test skips the document (line 182)
DateSkips(pub_date, start, end) ==
  pub_date = <<>> \/ ~(StrLE(start, pub_date) /\ StrLE(pub_date, end))

\* keywords_str of a stored document (line 185)
KeywordsStr(v) == Lower(Str(OrEmpty(Get(v, K_keywords, PyStr(<<>>)))))

\* query_lower (line 177)
QueryLower(query) == Strip(Lower(query))

\* the keyword test with the test of the empty query turned round
KeywordSkips_EmptySkips(query_lower, keywords_str) ==
  query_lower = <<>> \/ ~Contains(query_lower, keywords_str)

\* whether the keyword test skips the document (line 186)
KeywordSkips(query_lower, keywords_str) ==
  query_lower # <<>> /\ ~Contains(query_lower, keywords_str)

\* the document as appended to filtered_manual (lines 189-196)
WithDefaults(v) ==
  LET v1 == SetDefault(v, K_title, PyStr(T_Untitled))
      v2 == SetDefault(v1, K_channel, Get(v1, K_idfield, PyStr(T_Unknown)))
      v3 == SetDefault(v2, K_url, PyStr(<<"#">>))
      v4 == SetDefault(v3, K_views, PyInt(0))
      v5 == SetDefault(v4, K_likes, PyInt(0))
      v6 == SetDefault(v5, K_comments, PyInt(0))
      v7 == SetDefault(v6, K_platform, PyStr(T_Manual))
  IN SetItem(v7, K_published, PyStr(PubDate(v)))

\* filtered_manual (lines 178-197)
RECURSIVE FilteredManual(_, _, _, _)
FilteredManual(manual_raw, query, start, end) ==
  IF manual_raw = <<>> THEN <<>>
  ELSE LET v == Head(manual_raw)
           rest == FilteredManual(Tail(manual_raw), query, start, end)
       IN IF DateSkips(PubDate(v), start, end) THEN rest
          ELSE IF KeywordSkips(QueryLower(query), KeywordsStr(v)) THEN rest
          ELSE <<WithDefaults(v)>> \o rest

\* the sort key of line 207, as text
SortKey(x) == Str(Get(x, K_published, PyStr(T_Sentinel)))

\* the order of a sort without reverse=True
Before_Ascending(x, y) == StrLess(SortKey(x), SortKey(y))

\* whether x goes before y under sort(reverse=True): a larger key first
Before(x, y) == StrLess(SortKey(y), SortKey(x))

\* x inserted into a sorted list behind every element it does not go before
RECURSIVE InsertSorted(_, _)
InsertSorted(sorted, x) ==
  IF sorted = <<>> THEN <<x>>
  ELSE IF Before(x, Head(sorted)) THEN <<x>> \o sorted
  ELSE <<Head(sorted)>> \o InsertSorted(Tail(sorted), x)

\* list.sort(key=..., reverse=True): stable, equal keys keep their order
RECURSIVE SortVideos(_)
SortVideos(videos) ==
  IF videos = <<>> THEN <<>>
  ELSE InsertSorted(SortVideos(SubSeq(videos, 1, Len(videos) - 1)),
                    videos[Len(videos)])

\* the list chosen by source (lines 200-205)
Combine(source, yt_videos, filtered_manual) ==
  IF source = "youtube" THEN yt_videos
  ELSE IF source = "manual" THEN filtered_manual
  ELSE yt_videos \o filtered_manual

\* the JSONResponse of the except branch (line 211)
ErrorResponse == [status |-> 500, error |-> TRUE, videos |-> <<>>, total |-> 0]

\* whether source calls the provider (line 171)
CallsSearch(source) == source \in {"all", "youtube"}

\* what manual_collection.find({}) does (line 176): it returns the documents
\* of the collection, or raises (the database does not answer)
Found(docs) == [raised |-> FALSE, docs |-> docs]
FindError == [raised |-> TRUE, docs |-> <<>>]

\* whether the search of line 172 raises, so that line 176 is not reached
SearchRaises(query, max_results, source, provider) ==
  CallsSearch(source) /\ search_videos(query, max_results, provider).pc # "return"

\* combined_videos(query, start, end, max_results, source), given the answers
\* of the provider and what find({}) does
combined_videos(query, start, end, max_results, source, provider, found) ==
  LET st == search_videos(query, max_results, provider)
      yt_videos == IF CallsSearch(source) THEN SearchResult(st).videos ELSE <<>>
      combined == SortVideos(Combine(source, yt_videos,
                               FilteredManual(found.docs, query, start, end)))
  IN IF CallsSearch(source) /\ st.pc # "return" THEN ErrorResponse
     ELSE IF found.raised THEN ErrorResponse
     ELSE [status |-> 200, error |-> FALSE, videos |-> combined,
           total |-> Len(combined)]

(* ------------------------------------------------------------------ *)
(* Bounds and inputs                                                    *)
(* ------------------------------------------------------------------ *)

\* the rows of an uploaded spreadsheet
MaxRows == 2

\* the max_results values of a search, beside -1, 0 and BatchSize + 1
SmallMax == 2

\* the items of a full page: the search request asks for maxResults=50
PageSize == 50

\* YYYY-MM-DD
DateText(y, m, d) ==
  Padded(y, 4) \o <<"-">> \o Padded(m, 2) \o <<"-">> \o Padded(d, 2)

\* the sequences over S of length at most n
BoundedSeq(S, n) == UNION {[1..k -> S] : k \in 0..n}

\* the rows of the spreadsheets, as <<published cell, keywords cell>>: a date
\* string, a later date string with a trailing blank, a native date, the
\* number 0 beside an empty cell
SheetRows ==
  { <<PyStr(DateText(2024, 1, 5)), PyStr(<<"P", "o", "p">>)>>,
    <<PyStr(DateText(2024, 1, 20) \o <<" ">>), PyStr(<<"m", "o">>)>>,
    <<PyDatetime(<<2024, 1, 5, 0, 0, 0>>), PyStr(<<"P", "o", "p">>)>>,
    <<PyInt(0), NaN>> }

\* the spreadsheets with both columns
FullSheets ==
  { [columns |-> <<K_published, K_keywords>>, rows |-> rs] :
      rs \in BoundedSeq(SheetRows, MaxRows) }

\* the spreadsheets of one row whose headers are padded and capitalised
PaddedSheets ==
  { [columns |-> << <<" ", "P", "u", "b", "l", "i", "s", "h", "e", "d">>,
                    <<"K", "E", "Y", "W", "O", "R", "D", "S", " ">> >>,
     rows |-> <<r>>] : r \in SheetRows }

\* the spreadsheets of one row with no published column
KeywordSheets ==
  { [columns |-> <<K_keywords>>, rows |-> << <<r[2]>> >>] : r \in SheetRows }

Sheets == FullSheets \cup PaddedSheets \cup KeywordSheets

\* the spreadsheets uploaded against the reads of the collection: those
\* with no native date, and the padded ones
StoreSheets ==
  { sheet \in FullSheets :
      \A i \in 1..Len(sheet.rows) : sheet.rows[i][1].t # "datetime" }
    \cup PaddedSheets

\* the file names of an upload
F_xlsx == <<"a", ".", "X", "L", "S", "X">>
F_csv == <<"a", ".", "c", "s", "v">>
FileNames == {F_xlsx, F_csv}

\* the queries: empty, and capitalised with a trailing blank
Queries == { <<>>, <<"P", "o", "p", " ">> }

\* the date ranges: from 10 January 2024 to the month's end, and up to
\* 10 January with an empty start
Ranges ==
  { [start |-> DateText(2024, 1, 10), end |-> DateText(2024, 1, 31)],
    [start |-> <<>>, end |-> DateText(2024, 1, 10)] }

Sources == {"all", "youtube", "manual", "other"}

\* the sources that call the provider
SearchSources == {s \in Sources : CallsSearch(s)}

\* publishedAt of the provider's video: a day of January 2024
PublishedAt(id) ==
  DateText(2024, 1, 1 + ((3 * id) % 28))
    \o <<"T", "0", "8", ":", "0", "0", ":", "0", "0", "Z">>

\* the item of a statistics response for one identifier
StatsItem(id) == [id |-> id, publishedAt |-> PublishedAt(id)]

\* a statistics response
YtVideos(items) ==
  [raised |-> FALSE, error |-> <<>>, items |-> items, nextPageToken |-> 0]

\* the provider of a request that never calls it
NoProvider == [search |-> <<>>, videos |-> <<>>]

\* the provider with a page of two videos and their statistics
TwoVideos ==
  [search |-> <<YtPage(<<1, 2>>, 0)>>,
   videos |-> <<YtVideos(<<StatsItem(1), StatsItem(2)>>)>>]

\* the scripted providers of a combined request: one whose search fails,
\* one whose search fails with an empty message, one with no result, one
\* with a page of two videos and their statistics
Providers ==
  { [search |-> <<YtError(E_timeout)>>, videos |-> <<>>],
    [search |-> <<YtError(E_none)>>, videos |-> <<>>],
    [search |-> <<YtPage(<<>>, 0)>>, videos |-> <<>>],
    TwoVideos }

\* the provider's answers to a search request: a failure with a message and
\* one without, an empty page, a page of one video, a full page; each page
\* with or without a token
FullPage == [i \in 1..PageSize |-> i]

SearchResponses ==
  {YtError(E_timeout), YtError(E_none)} \cup
  { YtPage(items, token) : items \in {<<>>, <<1>>, FullPage}, token \in {0, 1} }

\* the provider's answers to a statistics request: a failure with a message
\* and one without, no item, one item for each identifier asked for, the
\* same video twice
StatsResponses(batch_ids) ==
  { YtError(E_timeout),
    YtError(E_none),
    YtVideos(<<>>),
    YtVideos([j \in 1..Len(batch_ids) |-> StatsItem(batch_ids[j])]),
    YtVideos(<<StatsItem(1), StatsItem(1)>>) }

\* the queries of a search: a bare hashtag, and a hashtag with a trailing blank
SearchQueries == { <<"#">>, <<"#", "M", "o", " ">> }

MaxResultsValues == {-1, 0} \cup (1..SmallMax) \cup {BatchSize + 1}

(* ------------------------------------------------------------------ *)
(* State                                                                *)
(* ------------------------------------------------------------------ *)

VARIABLES
  manual_collection,  \* the documents of db["manual_data"], in insertion order
  upload,             \* the upload_excel request in progress
  prior,              \* history: the documents the upload in progress deleted
  response,           \* the response of the request that ended last, since
                      \* the last upload began
  request,            \* history: that request, and what its find({}) returned
  search,             \* the search_videos call in progress
  stats_log,          \* history: the answers to the call's statistics requests
  search_failed       \* history: whether a search request of the call failed

vars == <<manual_collection, upload, prior, response, request,
          search, stats_log, search_failed>>

storeVars == <<manual_collection, upload, prior, response, request>>

searchVars == <<search, stats_log, search_failed>>

NoUpload == [pc |-> "idle", records |-> <<>>]

NoRequest ==
  [op |-> "none", query |-> <<>>, start |-> <<>>, end |-> <<>>, source |-> "",
   find_raised |-> FALSE, manual_raw |-> <<>>, during |-> "idle",
   prior |-> <<>>, records |-> <<>>]

\* no request has ended since the last upload began
NoResponse == [status |-> 0]

NoSearch ==
  [pc |-> "idle", query |-> <<>>, max_results |-> 0, video_ids |-> <<>>,
   next_page |-> 0, items |-> <<>>, token |-> 0, i |-> 0, stats |-> <<>>,
   processed_ids |-> {}]

Init ==
  /\ manual_collection = <<>>
  /\ upload = NoUpload
  /\ prior = <<>>
  /\ response = NoResponse
  /\ request = NoRequest
  /\ search = NoSearch
  /\ stats_log = <<>>
  /\ search_failed = FALSE

(* ------------------------------------------------------------------ *)
(* upload_excel                                                         *)
(* ------------------------------------------------------------------ *)

\* str.endswith(suffix)
EndsWith(s, suffix) ==
  Len(s) >= Len(suffix) /\ SubSeq(s, Len(s) - Len(suffix) + 1, Len(s)) = suffix

\* the test of line 66
IsExcelName(filename) ==
  \/ EndsWith(Lower(filename), <<".", "x", "l", "s", "x">>)
  \/ EndsWith(Lower(filename), <<".", "x", "l", "s">>)

\* a delete_many that removes nothing
AfterDelete_Kept(docs) == docs

\* the collection after delete_many({})
AfterDelete(docs) == <<>>

\* the collection after insert_many(records)
AfterInsert(docs, records) == docs \o InsertedDocs(records, Len(docs))

\* Line 67: a file that is no spreadsheet is refused.
UploadRefused(filename) ==
  /\ upload.pc = "idle"
  /\ ~IsExcelName(filename)
  /\ response' = [status |-> 400]
  /\ request' = [NoRequest EXCEPT !.op = "upload"]
  /\ UNCHANGED <<manual_collection, upload, prior>>
  /\ UNCHANGED searchVars

\* Lines 70-75 raise (the file does not parse): HTTPException(500).
UploadParseError(filename) ==
  /\ upload.pc = "idle"
  /\ IsExcelName(filename)
  /\ response' = [status |-> 500]
  /\ request' = [NoRequest EXCEPT !.op = "upload"]
  /\ UNCHANGED <<manual_collection, upload, prior>>
  /\ UNCHANGED searchVars

\* Lines 70-76: the sheet is read and the collection emptied. The handler is
\* a coroutine with no await between here and its return, so no second
\* upload_excel runs until it has ended; requests served by the thread pool do.
UploadDelete(filename, sheet) ==
  /\ upload.pc = "idle"
  /\ IsExcelName(filename)
  /\ upload' = [pc |-> "deleted", records |-> Records(sheet)]
  /\ manual_collection' = AfterDelete(manual_collection)
  /\ response' = NoResponse
  /\ request' = NoRequest
  /\ UNCHANGED searchVars

\* Lines 77-80: the records are inserted and the count returned.
UploadInsert ==
  /\ upload.pc = "deleted"
  /\ manual_collection' =
       IF upload.records # <<>>
       THEN AfterInsert(manual_collection, upload.records)
       ELSE manual_collection
  /\ response' = [status |-> 200, count |-> Len(upload.records)]
  /\ request' = [NoRequest EXCEPT !.op = "upload", !.records = upload.records,
                                  !.prior = prior]
  /\ upload' = NoUpload
  /\ prior' = <<>>
  /\ UNCHANGED searchVars

\* Line 78 raises after k of the records are in: HTTPException(500).
UploadInsertError(k) ==
  /\ upload.pc = "deleted"
  /\ k < Len(upload.records)
  /\ manual_collection' =
       AfterInsert(manual_collection, SubSeq(upload.records, 1, k))
  /\ response' = [status |-> 500]
  /\ request' = [NoRequest EXCEPT !.op = "upload", !.records = upload.records]
  /\ upload' = NoUpload
  /\ prior' = <<>>
  /\ UNCHANGED searchVars

(* ------------------------------------------------------------------ *)
(* combined_videos                                                      *)
(* ------------------------------------------------------------------ *)

\* The whole handler; its find({}), when the search before it has not
\* raised, reads the collection as it is now or raises.
CombinedRequest(query, range, max_results, source, provider, find_raises) ==
  LET reached == ~SearchRaises(query, max_results, source, provider)
      found == IF reached /\ find_raises THEN FindError
               ELSE IF reached THEN Found(manual_collection)
               ELSE Found(<<>>)
  IN /\ response' = combined_videos(query, range.start, range.end, max_results,
                                    source, provider, found)
     /\ request' = [op |-> "combined", query |-> query, start |-> range.start,
                    end |-> range.end, source |-> source,
                    find_raised |-> found.raised, manual_raw |-> found.docs,
                    during |-> upload.pc, prior |-> prior,
                    records |-> upload.records]
     /\ UNCHANGED <<manual_collection, upload, prior>>
     /\ UNCHANGED searchVars

(* ------------------------------------------------------------------ *)
(* search_videos, step by step                                          *)
(* ------------------------------------------------------------------ *)

Finished == {"idle", "return", "raise400", "raise502"}

SearchCall(query, max_results) ==
  /\ search.pc \in Finished
  /\ search' = SearchBegin(query, max_results)
  /\ stats_log' = <<>>
  /\ search_failed' = FALSE
  /\ UNCHANGED storeVars

SearchFetch(data) ==
  /\ search.pc = "while"
  /\ WhileTest(search)
  /\ search' = SearchPage(search, data)
  /\ search_failed' = data.raised
  /\ UNCHANGED stats_log
  /\ UNCHANGED storeVars

SearchWhileExit ==
  /\ search.pc = "while"
  /\ ~WhileTest(search)
  /\ search' = WhileExit(search)
  /\ UNCHANGED <<stats_log, search_failed>>
  /\ UNCHANGED storeVars

SearchForItem ==
  /\ search.pc = "for"
  /\ search' = ForItem(search)
  /\ UNCHANGED <<stats_log, search_failed>>
  /\ UNCHANGED storeVars

SearchPageEnd ==
  /\ search.pc = "token"
  /\ search' = PageEnd(search)
  /\ UNCHANGED <<stats_log, search_failed>>
  /\ UNCHANGED storeVars

SearchCollected ==
  /\ search.pc = "collected"
  /\ search' = Collected(search)
  /\ UNCHANGED <<stats_log, search_failed>>
  /\ UNCHANGED storeVars

SearchStats(info) ==
  /\ search.pc = "batch"
  /\ BatchTest(search)
  /\ search' = StatsBatch(search, info)
  /\ stats_log' = Append(stats_log, info)
  /\ UNCHANGED search_failed
  /\ UNCHANGED storeVars

SearchBatchExit ==
  /\ search.pc = "batch"
  /\ ~BatchTest(search)
  /\ search' = BatchExit(search)
  /\ UNCHANGED <<stats_log, search_failed>>
  /\ UNCHANGED storeVars

(* ------------------------------------------------------------------ *)
(* Specifications                                                       *)
(* ------------------------------------------------------------------ *)

\* The uploads and the combined listing. After a search that returned, what
\* a find({}) that raises leaves does not depend on the search's result:
\* it is taken with the provider of two videos.
Next ==
  \/ \E f \in FileNames : UploadRefused(f)
  \/ \E f \in FileNames : UploadParseError(f)
  \/ \E f \in FileNames, sheet \in Sheets : UploadDelete(f, sheet) /\ UNCHANGED prior
  \/ UploadInsert
  \/ \E k \in 0..MaxRows : UploadInsertError(k)
  \/ \E q \in Queries, r \in Ranges, s \in SearchSources, p \in Providers :
        CombinedRequest(q, r, SmallMax, s, p, FALSE)
  \/ \E q \in Queries, r \in Ranges, s \in SearchSources :
        CombinedRequest(q, r, SmallMax, s, TwoVideos, TRUE)
  \/ \E q \in Queries, r \in Ranges, s \in Sources \ SearchSources,
        fr \in BOOLEAN :
        CombinedRequest(q, r, SmallMax, s, NoProvider, fr)

Spec == Init /\ [][Next]_vars

\* The uploads against the reads of the collection that return, with the
\* history of what each upload deleted.
NextStore ==
  \/ \E f \in FileNames : UploadRefused(f)
  \/ \E f \in FileNames : UploadParseError(f)
  \/ \E f \in FileNames, sheet \in StoreSheets :
        UploadDelete(f, sheet) /\ prior' = manual_collection
  \/ UploadInsert
  \/ \E k \in 0..MaxRows : UploadInsertError(k)
  \/ \E r \in Ranges :
        CombinedRequest(<<>>, r, SmallMax, "manual", NoProvider, FALSE)

SpecStore == Init /\ [][NextStore]_vars

\* One search_videos call after the other.
SearchStep ==
  \/ \E data \in SearchResponses : SearchFetch(data)
  \/ SearchWhileExit
  \/ SearchForItem
  \/ SearchPageEnd
  \/ SearchCollected
  \/ \E info \in StatsResponses(BatchIds(search)) : SearchStats(info)
  \/ SearchBatchExit

NextSearch ==
  \/ \E q \in SearchQueries, m \in MaxResultsValues : SearchCall(q, m)
  \/ SearchStep

SpecSearch == Init /\ [][NextSearch]_vars

\* The handler's thread runs on, and every request to the provider returns
\* (yt() answers or fails within its timeout).
LiveSearch == SpecSearch /\ WF_vars(SearchStep)

(* ------------------------------------------------------------------ *)
(* Properties of combined_videos                                        *)
(* ------------------------------------------------------------------ *)

\* the published value of a stored document as the listing reads it: its
\* trimmed text, a missing or falsy value ("", 0) counting as the empty text
PublishedOf(doc) == Strip(Str(OrEmpty(Get(doc, K_published, PyStr(<<>>)))))

\* the keywords field of a stored document as the listing reads it: its
\* lowercased text, a missing or falsy value counting as the empty text
KeywordsOf(doc) == Lower(Str(OrEmpty(Get(doc, K_keywords, PyStr(<<>>)))))

\* the published value of a stored document as plain trimmed text: 0 is "0"
PublishedText(doc) == Strip(Str(Get(doc, K_published, PyStr(<<>>))))

InRange(text, start, end) == StrLE(start, text) /\ StrLE(text, end)

\* the elements of a sequence
Elems(seq) == {seq[i] : i \in 1..Len(seq)}

\* the returned videos that are manual records: those with an _id
ManualVideos(videos) == {v \in Elems(videos) : K_id \in DOMAIN v}

\* whether the stored document is among the returned videos
Appears(doc, videos) == \E v \in ManualVideos(videos) : v[K_id] = doc[K_id]

\* a combined_videos request has ended with its success response
CombinedOk == request.op = "combined" /\ response.status = 200

\* C1 as stated: a manual record whose published lies outside [start, end]
\* never appears in the returned videos, and when the query is non-empty a
\* record whose lowercased keywords do not contain the lowercased query
\* never appears.
C1_FilterByLoweredQuery ==
  CombinedOk =>
    \A doc \in Elems(request.manual_raw) :
      \/ ~Appears(doc, response.videos)
      \/ /\ InRange(PublishedOf(doc), request.start, request.end)
         /\ request.query # <<>> =>
              Contains(Lower(request.query), KeywordsOf(doc))

\* C1 amended: a manual record whose published lies outside [start, end]
\* never appears in the returned videos, and when the query, lowercased and
\* stripped of surrounding blanks, is non-empty, a record whose lowercased
\* keywords do not contain that stripped query never appears.
C1_FilterByStrippedQuery ==
  CombinedOk =>
    \A doc \in Elems(request.manual_raw) :
      \/ ~Appears(doc, response.videos)
      \/ /\ InRange(PublishedOf(doc), request.start, request.end)
         /\ Strip(Lower(request.query)) # <<>> =>
              Contains(Strip(Lower(request.query)), KeywordsOf(doc))

\* C1 witness: a listing that left out one stored record for its date and
\* another, within the range, for its keywords.
C1_Witness ==
  /\ CombinedOk
  /\ request.source \in {"all", "manual"}
  /\ \E d1, d2 \in Elems(request.manual_raw) :
       /\ PublishedOf(d1) # <<>>
       /\ ~InRange(PublishedOf(d1), request.start, request.end)
       /\ ~Appears(d1, response.videos)
       /\ InRange(PublishedOf(d2), request.start, request.end)
       /\ ~Contains(Strip(Lower(request.query)), KeywordsOf(d2))
       /\ ~Appears(d2, response.videos)

\* the published field of a returned video, as text
PublishedField(v) == Str(v[K_published])

\* C2: the videos of every success response are ordered by published,
\* non-increasing: no element's published is less than its successor's.
C2_SortedNewestFirst ==
  CombinedOk =>
    \A j \in 1..(Len(response.videos) - 1) :
      ~StrLess(PublishedField(response.videos[j]),
               PublishedField(response.videos[j + 1]))

\* C2 witness: a listing of provider and manual records in which a manual
\* record comes before a provider record with an older date.
C2_Witness ==
  /\ CombinedOk
  /\ Len(response.videos) >= 3
  /\ \E j \in 1..(Len(response.videos) - 1) :
       /\ K_id \in DOMAIN response.videos[j]
       /\ K_video_id \in DOMAIN response.videos[j + 1]
       /\ StrLess(PublishedField(response.videos[j + 1]),
                  PublishedField(response.videos[j]))

\* C7 as stated: the published field of every manual record in a combined
\* response is a string of exactly 10 characters.
C7_PublishedTenChars ==
  CombinedOk =>
    \A v \in ManualVideos(response.videos) :
      v[K_published].t = "str" /\ Len(v[K_published].s) = 10

\* C8 as stated: with source "all" or "manual" and an empty query, every
\* stored record whose published lies within [start, end] is among the
\* returned videos.
C8_EmptyQueryMatchesAll ==
  (request.op = "combined" /\ request.source \in {"all", "manual"}
     /\ request.query = <<>>) =>
    \A doc \in Elems(request.manual_raw) :
      InRange(PublishedText(doc), request.start, request.end) =>
        Appears(doc, response.videos)

\* C8 amended: with source "manual" and an empty query, when the read of
\* the collection returns, the handler returns its success result, and
\* every stored record whose published value is truthy (neither missing,
\* nor "", nor 0), is not blank, and as trimmed text lies within
\* [start, end] is among the returned videos.
C8_EmptyQueryManualSource ==
  (request.op = "combined" /\ request.source = "manual"
     /\ request.query = <<>> /\ ~request.find_raised) =>
    /\ response.status = 200
    /\ \A doc \in Elems(request.manual_raw) :
         (PublishedOf(doc) # <<>>
            /\ InRange(PublishedOf(doc), request.start, request.end)) =>
           Appears(doc, response.videos)

\* C8 witness: a listing with source "manual" and an empty query over two
\* stored records, one returned and one whose published is the number 0,
\* within [start, end] as the text "0" and left out.
C8_Witness ==
  /\ CombinedOk
  /\ request.source = "manual"
  /\ request.query = <<>>
  /\ \E d1, d2 \in Elems(request.manual_raw) :
       /\ Appears(d1, response.videos)
       /\ PublishedOf(d2) = <<>>
       /\ InRange(PublishedText(d2), request.start, request.end)
       /\ ~Appears(d2, response.videos)

\* C8 second witness: a listing with source "manual" and an empty query
\* that returned both of the two stored records.
C8_WitnessBoth ==
  /\ CombinedOk
  /\ request.source = "manual"
  /\ request.query = <<>>
  /\ \E d1, d2 \in Elems(request.manual_raw) :
       /\ d1 # d2
       /\ Appears(d1, response.videos)
       /\ Appears(d2, response.videos)

\* C8 third case: with source "manual" the read of the collection raised
\* and the handler answered with the error response.
C8_FindRaised ==
  /\ request.op = "combined"
  /\ request.source = "manual"
  /\ request.find_raised
  /\ response.status = 500

(* ------------------------------------------------------------------ *)
(* Properties of upload_excel                                           *)
(* ------------------------------------------------------------------ *)

\* an upload_excel request has ended with its success response
UploadOk == request.op = "upload" /\ response.status = 200

\* C3: after a successful upload of a spreadsheet the collection holds
\* exactly its rows, in its count; so when the collection held the rows of
\* the same spreadsheet before, it holds the same rows in the same number.
C3_UploadReplaces ==
  UploadOk =>
    /\ RowsOf(manual_collection) = request.records
    /\ response.count = Len(manual_collection)
    /\ RowsOf(request.prior) = request.records =>
         /\ RowsOf(manual_collection) = RowsOf(request.prior)
         /\ Len(manual_collection) = Len(request.prior)

\* C3 witness: a spreadsheet of two rows uploaded onto its own rows.
C3_Witness ==
  /\ UploadOk
  /\ Len(request.records) = 2
  /\ RowsOf(request.prior) = request.records
  /\ Len(manual_collection) = 2

\* C4 as stated: what a read of the collection returns while an upload is
\* between its delete and its insert is the whole row set of one upload:
\* the rows the collection held before, or the rows of the upload.
C4_ReadSeesWholeUpload ==
  (request.op = "combined" /\ request.during = "deleted") =>
    \/ RowsOf(request.manual_raw) = RowsOf(request.prior)
    \/ RowsOf(request.manual_raw) = request.records

(* ------------------------------------------------------------------ *)
(* Properties of search_videos                                          *)
(* ------------------------------------------------------------------ *)

\* the call has a valid query and is past its check
Searching == search.pc \notin {"idle", "raise400"}

\* C5 as stated: the identifiers collected are at most max_results at every
\* point of the call.
C5_AtMostMaxResults ==
  Searching => Len(search.video_ids) <= search.max_results

\* C5 amended: the identifiers collected are at most max_results when
\* max_results is not negative, and none when it is negative.
C5_AtMostMaxResultsOrNone ==
  Searching =>
    Len(search.video_ids) <=
      (IF search.max_results < 0 THEN 0 ELSE search.max_results)

\* C5 witness: the for loop has stopped at max_results identifiers with
\* items of the page left over.
C5_Witness ==
  /\ search.pc = "token"
  /\ search.items # <<>>
  /\ search.max_results > 1
  /\ Len(search.video_ids) = search.max_results

\* the video_id values of a list of videos
VideoIdsOf(videos) == [j \in 1..Len(videos) |-> videos[j][K_video_id].n]

\* C6: the videos a call returns hold no video_id twice.
C6_NoDuplicateVideoId ==
  search.pc = "return" =>
    \A j, k \in 1..Len(SearchResult(search).videos) :
      j # k => VideoIdsOf(SearchResult(search).videos)[j]
                 # VideoIdsOf(SearchResult(search).videos)[k]

\* the statistics batches that succeeded
Succeeded(log) == {b \in 1..Len(log) : ~log[b].raised}

\* C6 witness: a call has returned after two statistics batches that both
\* succeeded and both held the same identifier, collected twice by the search.
C6_Witness ==
  /\ search.pc = "return"
  /\ Len(stats_log) = 2
  /\ Succeeded(stats_log) = {1, 2}
  /\ \E x \in Elems(stats_log[1].items), y \in Elems(stats_log[2].items) :
       x.id = y.id
  /\ \E j, k \in 1..Len(search.video_ids) :
       j # k /\ search.video_ids[j] = search.video_ids[k]
  /\ Len(search.stats) >= 2

\* the items of the statistics batches that succeeded, in order
RECURSIVE SucceededItems(_)
SucceededItems(log) ==
  IF log = <<>> THEN <<>>
  ELSE (IF Head(log).raised THEN <<>> ELSE Head(log).items)
         \o SucceededItems(Tail(log))

\* the items whose identifier no earlier item has
FirstOfEachId(items) ==
  LET keep == {j \in 1..Len(items) :
                 \A k \in 1..(j - 1) : items[k].id # items[j].id}
      nth(n) == CHOOSE j \in keep : Cardinality({k \in keep : k < j}) = n - 1
  IN [n \in 1..Cardinality(keep) |-> items[nth(n)]]

\* the records of a list of items
RecordsOfItems(items, query) ==
  [j \in 1..Len(items) |-> StatsRecord(items[j], query)]

\* C9, at the return: the videos are the records of the batches that
\* succeeded, each identifier once, and total is their number; and at a 502:
\* a search request failed and no statistics request was made.
C9_AtTheEnd ==
  /\ (search.pc = "return" /\ search.video_ids # <<>>) =>
       /\ SearchResult(search).videos =
            RecordsOfItems(FirstOfEachId(SucceededItems(stats_log)), search.query)
       /\ SearchResult(search).total = Len(SearchResult(search).videos)
  /\ search.pc = "raise502" => (search_failed /\ stats_log = <<>>)

\* C9, step by step: once the search stage has succeeded the call goes on
\* to the next batch or returns, whatever the batch answers.
C9_EveryStep ==
  (search.pc = "batch" /\ search'.pc # "batch") => search'.pc = "return"

\* C9: a failed statistics batch never fails the call: after the search
\* stage the call returns the de-duplicated records of the batches that
\* succeeded with their number as total, and only a failed search request
\* gives the 502.
C9_BatchFailureDegrades == [](C9_AtTheEnd) /\ [][C9_EveryStep]_vars

\* C9 witness: a call has returned videos after one statistics batch
\* failed and another succeeded.
C9_Witness ==
  /\ search.pc = "return"
  /\ Len(stats_log) = 2
  /\ Cardinality(Succeeded(stats_log)) = 1
  /\ Len(search.stats) >= 1

\* the positions of the pagination loop
InLoop == search.pc \in {"while", "for", "token"}

\* C10: the pagination loop always ends: a call in the loop leaves it.
C10_LoopTerminates == InLoop ~> ~InLoop

\* C10 witness: the loop has ended after more than one search request.
C10_Witness ==
  /\ search.pc = "collected"
  /\ search.next_page # 0
  /\ Len(search.video_ids) >= 2
====
